---- MODULE Spec2Model ----
(***************************************************************************)
(* kamui-yaml-visualizer: the tree flattener (processDirectory), the       *)
(* layered layout (calculateNodePositions), generateNodesAndEdges, and the *)
(* Home page with its debounced parse and the YamlVisualizer it mounts.    *)
(***************************************************************************)
EXTENDS Integers, Sequences, FiniteSets, TLC

VARIABLES
    layoutNodes,    \* calculateNodePositions: the nodes argument
    layoutEdges,    \* calculateNodePositions: the edges argument
    layoutResult,   \* calculateNodePositions: outcome of the call
    yamlTree,       \* generateNodesAndEdges: the yamlData argument
    genResult,      \* generateNodesAndEdges: outcome of the latest call
    genPrevious,    \* generateNodesAndEdges: outcome of the call before it
    yamlText,       \* Home: text of the text area
    yamlData,       \* Home: parsed document, or null
    parseError,     \* Home: error message, or null
    pendingParse,   \* Home: the timer of debouncedParse and its last argument
    visualizer,     \* YamlVisualizerContent: mounted, nodes/edges state, agents
    crashed,        \* a render threw
    sinceReset      \* history: handleReset ran and the text has not changed since

layoutVars == <<layoutNodes, layoutEdges, layoutResult>>

genVars == <<yamlTree, genResult, genPrevious>>

homeVars ==
    <<yamlText, yamlData, parseError, pendingParse, visualizer, crashed, sinceReset>>

vars == <<layoutVars, genVars, homeVars>>

----------------------------------------------------------------------------
(* Bounds *)

MaxEdges == 3       \* longest edge list handed to calculateNodePositions
MaxDeps == 2        \* most dependency entries declared in one input tree
StackLimit == 6     \* deepest call nesting the engine allows before RangeError

(* Program constants *)

defaultHorizontalSpacing == 400
defaultVerticalSpacing == 200
STAGGER_OFFSET == 100

----------------------------------------------------------------------------
(* Helpers for JavaScript objects used as maps *)

EmptyMap == [k \in {} |-> 0]

Put(m, k, v) == [x \in (DOMAIN m) \cup {k} |-> IF x = k THEN v ELSE m[x]]

Max(a, b) == IF a >= b THEN a ELSE b

SetMax(S) == CHOOSE m \in S : \A o \in S : o <= m

SetMin(S) == CHOOSE m \in S : \A o \in S : m <= o

\* Object.entries of an object with integer-like keys: ascending key order
RECURSIVE AscendingKeys(_)
AscendingKeys(S) ==
    IF S = {} THEN <<>>
    ELSE LET m == SetMin(S) IN <<m>> \o AscendingKeys(S \ {m})

----------------------------------------------------------------------------
(* calculateNodePositions *)

\* mutation: roots taken to be the nodes that are no edge's source
startNodes_bySource(ns, es) ==
    LET roots == SelectSeq(ns, LAMBDA node :
                     ~ \E i \in 1..Len(es) : es[i].source = node.id)
    IN [i \in 1..Len(roots) |-> roots[i].id]

startNodes(ns, es) ==
    LET roots == SelectSeq(ns, LAMBDA node :
                     ~ \E i \in 1..Len(es) : es[i].target = node.id)
    IN [i \in 1..Len(roots) |-> roots[i].id]

RECURSIVE calculateLevel(_, _, _, _)
RECURSIVE calculateLevelForEach(_, _, _, _, _)

\* mutation: the level is recorded but the child edges are not followed
calculateLevel_rootsOnly(st, es, nodeId, level) ==
    LET levels1 ==
            IF nodeId \in DOMAIN st.levels
            THEN Put(st.levels, nodeId, Max(st.levels[nodeId], level))
            ELSE Put(st.levels, nodeId, level)
        perLevel0 ==
            IF level \in DOMAIN st.nodesPerLevel
            THEN st.nodesPerLevel
            ELSE Put(st.nodesPerLevel, level, <<>>)
        perLevel1 == Put(perLevel0, level, Append(perLevel0[level], nodeId))
    IN [st EXCEPT !.levels = levels1, !.nodesPerLevel = perLevel1]

\* st = [levels, nodesPerLevel, error]; the call nests level + 1 frames deep
calculateLevel(st, es, nodeId, level) ==
    IF level > StackLimit
    THEN [st EXCEPT !.error = "RangeError"]
    ELSE LET levels1 ==
                 IF nodeId \in DOMAIN st.levels
                 THEN Put(st.levels, nodeId, Max(st.levels[nodeId], level))
                 ELSE Put(st.levels, nodeId, level)
             perLevel0 ==
                 IF level \in DOMAIN st.nodesPerLevel
                 THEN st.nodesPerLevel
                 ELSE Put(st.nodesPerLevel, level, <<>>)
             perLevel1 == Put(perLevel0, level, Append(perLevel0[level], nodeId))
             childEdges == SelectSeq(es, LAMBDA edge : edge.source = nodeId)
         IN calculateLevelForEach(
                [st EXCEPT !.levels = levels1, !.nodesPerLevel = perLevel1],
                es, childEdges, 1, level)

calculateLevelForEach(st, es, childEdges, i, level) ==
    IF i > Len(childEdges) \/ st.error # "none"
    THEN st
    ELSE calculateLevelForEach(
             calculateLevel(st, es, childEdges[i].target, level + 1),
             es, childEdges, i + 1, level)

RECURSIVE calculateLevels(_, _, _, _)
calculateLevels(st, es, starts, i) ==
    IF i > Len(starts) \/ st.error # "none"
    THEN st
    ELSE calculateLevels(calculateLevel(st, es, starts[i], 0), es, starts, i + 1)

RECURSIVE assignLevel_keepFirst(_, _, _, _)
\* mutation: a node that already has a position keeps it
assignLevel_keepFirst(pos, levelNum, nodeIds, i) ==
    IF i > Len(nodeIds)
    THEN pos
    ELSE LET totalWidth == (Len(nodeIds) - 1) * defaultHorizontalSpacing
             startX == 0 - (totalWidth \div 2)
             staggerX == IF levelNum % 2 = 0 THEN 0 ELSE STAGGER_OFFSET
             index == i - 1
         IN assignLevel_keepFirst(
                IF nodeIds[i] \in DOMAIN pos
                THEN pos
                ELSE Put(pos, nodeIds[i],
                         [x |-> startX + index * defaultHorizontalSpacing + staggerX,
                          y |-> levelNum * defaultVerticalSpacing]),
                levelNum, nodeIds, i + 1)

RECURSIVE assignLevel_noIndex(_, _, _, _)
\* mutation: the slot of a node does not advance with its index in the level
assignLevel_noIndex(pos, levelNum, nodeIds, i) ==
    IF i > Len(nodeIds)
    THEN pos
    ELSE LET totalWidth == (Len(nodeIds) - 1) * defaultHorizontalSpacing
             startX == 0 - (totalWidth \div 2)
             staggerX == IF levelNum % 2 = 0 THEN 0 ELSE STAGGER_OFFSET
         IN assignLevel_noIndex(
                Put(pos, nodeIds[i],
                    [x |-> startX + staggerX,
                     y |-> levelNum * defaultVerticalSpacing]),
                levelNum, nodeIds, i + 1)

RECURSIVE assignLevel(_, _, _, _)
assignLevel(pos, levelNum, nodeIds, i) ==
    IF i > Len(nodeIds)
    THEN pos
    ELSE LET totalWidth == (Len(nodeIds) - 1) * defaultHorizontalSpacing
             startX == 0 - (totalWidth \div 2)
             staggerX == IF levelNum % 2 = 0 THEN 0 ELSE STAGGER_OFFSET
             index == i - 1
         IN assignLevel(
                Put(pos, nodeIds[i],
                    [x |-> startX + index * defaultHorizontalSpacing + staggerX,
                     y |-> levelNum * defaultVerticalSpacing]),
                levelNum, nodeIds, i + 1)

RECURSIVE assignPositions(_, _, _, _)
assignPositions(pos, nodesPerLevel, order, i) ==
    IF i > Len(order)
    THEN pos
    ELSE assignPositions(
             assignLevel(pos, order[i], nodesPerLevel[order[i]], 1),
             nodesPerLevel, order, i + 1)

calculateNodePositions(ns, es) ==
    LET st0 == [levels |-> EmptyMap, nodesPerLevel |-> EmptyMap, error |-> "none"]
        st == calculateLevels(st0, es, startNodes(ns, es), 1)
    IN IF st.error # "none"
       THEN [status |-> st.error, positions |-> EmptyMap]
       ELSE [status |-> "returned",
             positions |-> assignPositions(EmptyMap, st.nodesPerLevel,
                               AscendingKeys(DOMAIN st.nodesPerLevel), 1)]

----------------------------------------------------------------------------
(* JavaScript values, as js-yaml's load produces them *)

Undefined == [t |-> "undefined", s |-> "", entries |-> <<>>]

Null == [t |-> "null", s |-> "", entries |-> <<>>]

Num == [t |-> "number", s |-> "", entries |-> <<>>]

Str(text) == [t |-> "string", s |-> text, entries |-> <<>>]

Entry(k, v) == [key |-> k, value |-> v]

Arr(elems) ==
    [t |-> "array", s |-> "",
     entries |-> [i \in 1..Len(elems) |-> Entry(ToString(i - 1), elems[i])]]

Obj(es) == [t |-> "object", s |-> "", entries |-> es]

\* Object.entries(v): own enumerable [key, value] pairs, or a TypeError
ObjectEntries(v) ==
    CASE v.t \in {"undefined", "null"} ->
             [error |-> "TypeError", entries |-> <<>>]
      [] v.t = "string" ->
             [error |-> "none",
              entries |-> [i \in 1..Len(v.s) |->
                              Entry(ToString(i - 1), Str(SubSeq(v.s, i, i)))]]
      [] v.t \in {"array", "object"} ->
             [error |-> "none", entries |-> v.entries]
      [] OTHER ->
             [error |-> "none", entries |-> <<>>]

\* k in v, for a v with typeof v === "object" && v !== null
HasKey(v, k) == \E i \in 1..Len(v.entries) : v.entries[i].key = k

\* v[k] (v.k)
Get(v, k) ==
    IF v.t \in {"array", "object"} /\ HasKey(v, k)
    THEN v.entries[CHOOSE i \in 1..Len(v.entries) : v.entries[i].key = k].value
    ELSE Undefined

\* position of the last occurrence of the character ch in text, 0 if none
LastIndexOf(text, ch) ==
    LET hits == {i \in 1..Len(text) : SubSeq(text, i, i) = ch}
    IN IF hits = {} THEN 0 ELSE SetMax(hits)

\* text.split(ch).pop() || ""
LastPart(text, ch) == SubSeq(text, LastIndexOf(text, ch) + 1, Len(text))

getFileExtension(path) == LastPart(path, ".")

defaultNodeWidth == "300px"

----------------------------------------------------------------------------
(* processDirectory and generateNodesAndEdges *)

isYamlFile(value) ==
    /\ value.t \in {"array", "object"}
    /\ HasKey(value, "content")
    /\ HasKey(value, "dependency")
    /\ HasKey(value, "agent")
    /\ HasKey(value, "api")

RECURSIVE pushDependencyEdges(_, _, _, _)
\* content.dependency.forEach((dep) => edges.push(...)), deps being strings
pushDependencyEdges(es, filePath, deps, i) ==
    IF i > Len(deps)
    THEN es
    ELSE pushDependencyEdges(
             Append(es, [id |-> filePath \o "-" \o deps[i].value.s,
                         source |-> filePath,
                         target |-> deps[i].value.s]),
             filePath, deps, i + 1)

RECURSIVE processDirectory(_, _, _, _, _)
RECURSIVE processDirectoryForEach(_, _, _, _, _, _)

\* st = [nodes, edges, agents, error]; rnd[k] is the pair Math.random() * 500
\* yields for the k-th node pushed; depth counts the nested calls
processDirectory(st, content, parentPath, rnd, depth) ==
    IF depth > StackLimit
    THEN [st EXCEPT !.error = "RangeError"]
    ELSE IF isYamlFile(content)
    THEN LET filePath == parentPath
             fileName == LastPart(filePath, "/")
             node == [id |-> filePath,
                      type |-> "default",
                      data |-> [label |-> fileName,
                                content |-> Get(content, "content"),
                                agent |-> Get(content, "agent"),
                                extension |-> getFileExtension(fileName)],
                      position |-> rnd[Len(st.nodes) + 1],
                      style |-> [border |-> "1px solid #ddd",
                                 width |-> defaultNodeWidth]]
             dependency == Get(content, "dependency")
             pushed == [st EXCEPT !.nodes = Append(@, node),
                                  !.agents = @ \cup {Get(content, "agent")}]
         IN IF dependency.t # "array"
            THEN [pushed EXCEPT !.error = "TypeError"]
            ELSE [pushed EXCEPT !.edges =
                     pushDependencyEdges(@, filePath, dependency.entries, 1)]
    ELSE LET listed == ObjectEntries(content)
         IN IF listed.error # "none"
            THEN [st EXCEPT !.error = listed.error]
            ELSE processDirectoryForEach(st, listed.entries, parentPath, rnd,
                                         depth, 1)

processDirectoryForEach(st, entries, parentPath, rnd, depth, i) ==
    IF i > Len(entries) \/ st.error # "none"
    THEN st
    ELSE LET key == entries[i].key
             newPath == IF parentPath # "" THEN parentPath \o "/" \o key ELSE key
         IN processDirectoryForEach(
                processDirectory(st, entries[i].value, newPath, rnd, depth + 1),
                entries, parentPath, rnd, depth, i + 1)

generateNodesAndEdges(data, rnd) ==
    LET st0 == [nodes |-> <<>>, edges |-> <<>>, agents |-> {}, error |-> "none"]
        st == processDirectory(st0, Get(data, "src"), "src", rnd, 1)
        laid == calculateNodePositions(st.nodes, st.edges)
        thrown == [status |-> "thrown", nodes |-> <<>>, edges |-> <<>>,
                   agents |-> {}, positions |-> EmptyMap]
    IN IF st.error # "none"
       THEN [thrown EXCEPT !.status = st.error]
       ELSE IF laid.status # "returned"
       THEN [thrown EXCEPT !.status = laid.status]
       ELSE [status |-> "returned",
             nodes |-> [i \in 1..Len(st.nodes) |->
                          IF st.nodes[i].id \in DOMAIN laid.positions
                          THEN [st.nodes[i] EXCEPT
                                   !.position = laid.positions[st.nodes[i].id]]
                          ELSE st.nodes[i]],
             edges |-> st.edges,
             agents |-> st.agents,
             positions |-> laid.positions]

----------------------------------------------------------------------------
(* Inputs of the layout *)

Ids == {"src/a.ts", "src/b.ts", "src/c.ts"}

NoDuplicates(s) == \A i, j \in 1..Len(s) : i # j => s[i] # s[j]

SeqsUpTo(S, n) == UNION {[1..k -> S] : k \in 0..n}

NodeLists ==
    {[i \in 1..Len(s) |-> [id |-> s[i]]] :
        s \in {t \in SeqsUpTo(Ids, Cardinality(Ids)) : NoDuplicates(t)}}

EdgeLists == SeqsUpTo([source : Ids, target : Ids], MaxEdges)

NotCalled == [status |-> "pending", positions |-> EmptyMap]

NotGenerated ==
    [status |-> "pending", nodes |-> <<>>, edges |-> <<>>, agents |-> {},
     positions |-> EmptyMap]

NoTimer == [armed |-> FALSE, text |-> ""]

Unmounted == [mounted |-> FALSE, nodes |-> <<>>, edges |-> <<>>, agents |-> {}]

\* the parts of the state a specification does not exercise
LayoutIdle ==
    /\ layoutNodes = <<>>
    /\ layoutEdges = <<>>
    /\ layoutResult = NotCalled

GenIdle ==
    /\ yamlTree = Undefined
    /\ genResult = NotGenerated
    /\ genPrevious = NotGenerated

HomeIdle ==
    /\ yamlText = ""
    /\ yamlData = Null
    /\ parseError = Null
    /\ pendingParse = NoTimer
    /\ visualizer = Unmounted
    /\ crashed = FALSE
    /\ sinceReset = FALSE

LayoutInit ==
    /\ layoutNodes \in NodeLists
    /\ layoutEdges \in EdgeLists
    /\ layoutResult = NotCalled
    /\ GenIdle
    /\ HomeIdle

CallCalculateNodePositions ==
    /\ layoutResult.status = "pending"
    /\ layoutResult' = calculateNodePositions(layoutNodes, layoutEdges)
    /\ UNCHANGED <<layoutNodes, layoutEdges, genVars, homeVars>>

LayoutNext == CallCalculateNodePositions

LayoutSpec == LayoutInit /\ [][LayoutNext]_vars

----------------------------------------------------------------------------
(* Inputs of generateNodesAndEdges: parsed trees                           *)
(*   src: { structure.yaml: leaf, a.ts: leaf, lib: { b.ts: leaf },         *)
(*          notes: <a value that is no leaf> }                             *)
(* every entry optional, the dependency lists drawn over the three file    *)
(* paths and one path that no tree contains; or, in place of notes, a leaf *)
(* under the key "lib/b.ts", a YAML key that holds the separator           *)

FileIds == <<"src/structure.yaml", "src/a.ts", "src/lib/b.ts">>

FileIdSet == {FileIds[i] : i \in 1..Len(FileIds)}

MissingId == "src/missing.ts"

DepTargets == FileIdSet \cup {MissingId}

Leaf(content, deps, agent) ==
    Obj(<<Entry("content", Str(content)),
          Entry("dependency", Arr([i \in 1..Len(deps) |-> Str(deps[i])])),
          Entry("agent", Str(agent)),
          Entry("api", Arr(<<>>))>>)

\* an entry that lacks the api field
PartialLeaf(content) ==
    Obj(<<Entry("content", Str(content)),
          Entry("dependency", Arr(<<>>)),
          Entry("agent", Str(""))>>)

NonLeafValues ==
    {Str("todo"), Str(""), Null, Num, Arr(<<Str("x")>>), Arr(<<>>),
     PartialLeaf(""), PartialLeaf("x")}

\* the targets tgts[i] of the dependencies declared by file, in order
DepsOf(file, srcs, tgts) ==
    LET idx == SelectSeq([i \in 1..Len(srcs) |-> i], LAMBDA i : srcs[i] = file)
    IN [k \in 1..Len(idx) |-> tgts[idx[k]]]

MakeTree(present, srcs, tgts, extra) ==
    LET opt(cond, e) == IF cond THEN <<e>> ELSE <<>>
    IN Obj(<<Entry("src", Obj(
          opt("src/structure.yaml" \in present,
              Entry("structure.yaml",
                    Leaf("root", DepsOf("src/structure.yaml", srcs, tgts), "A")))
          \o opt("src/a.ts" \in present,
              Entry("a.ts", Leaf("x", DepsOf("src/a.ts", srcs, tgts), "B")))
          \o opt("src/lib/b.ts" \in present,
              Entry("lib", Obj(<<Entry("b.ts",
                    Leaf("y", DepsOf("src/lib/b.ts", srcs, tgts), "B"))>>)))
          \o opt(extra # Undefined, Entry("notes", extra))))>>)

\* a leaf stored directly in src under a key that contains "/"
SlashKey == "lib/b.ts"

SlashLeaf == Leaf("z", <<>>, "C")

\* tree with one more entry appended to its src mapping
WithSrcEntry(tree, key, value) ==
    Obj(<<Entry("src", Obj(Append(Get(tree, "src").entries, Entry(key, value))))>>)

\* most leaves a tree holds, one Math.random() pair being drawn for each
MaxLeaves == Len(FileIds) + 1

\* the example tree of the specification
ExampleTree ==
    MakeTree({"src/structure.yaml", "src/a.ts"},
             <<"src/a.ts">>, <<"src/structure.yaml">>, Undefined)

\* outcomes of Math.random() * 500 for the x and y of a new node
RandomPositions == {[x |-> 0, y |-> 0], [x |-> 250, y |-> 125]}

GenInit ==
    /\ LayoutIdle
    /\ HomeIdle
    /\ genResult = NotGenerated
    /\ genPrevious = NotGenerated
    /\ \E present \in SUBSET FileIdSet, n \in 0..MaxDeps :
         \E srcs \in [1..n -> present], tgts \in [1..n -> DepTargets],
            extra \in {Undefined, SlashLeaf} \cup NonLeafValues :
             yamlTree = IF extra = SlashLeaf
                        THEN WithSrcEntry(MakeTree(present, srcs, tgts, Undefined),
                                          SlashKey, SlashLeaf)
                        ELSE MakeTree(present, srcs, tgts, extra)

RECURSIVE LeafCount(_)
RECURSIVE LeafCountEach(_, _)
\* number of leaves in a value, i.e. of nodes processDirectory creates for it
LeafCount(v) ==
    IF isYamlFile(v) THEN 1
    ELSE IF v.t \in {"array", "object"} THEN LeafCountEach(v.entries, 1)
    ELSE 0

LeafCountEach(entries, i) ==
    IF i > Len(entries) THEN 0
    ELSE LeafCount(entries[i].value) + LeafCountEach(entries, i + 1)

\* two calls on the same tree, as every render of YamlVisualizerContent makes;
\* each call draws one random position per node it creates
CallGenerateNodesAndEdges ==
    /\ genPrevious.status = "pending"
    /\ \E rnd \in [1..LeafCount(yamlTree) -> RandomPositions] :
           genResult' = generateNodesAndEdges(yamlTree, rnd)
    /\ genPrevious' = genResult
    /\ UNCHANGED <<yamlTree, layoutVars, homeVars>>

GenNext == CallGenerateNodesAndEdges

GenSpec == GenInit /\ [][GenNext]_vars

\* the layout called on its own and through generateNodesAndEdges
CoreInit == LayoutInit \/ GenInit

CoreNext ==
    \/ GenIdle /\ CallCalculateNodePositions
    \/ LayoutIdle /\ CallGenerateNodesAndEdges

CoreSpec == CoreInit /\ [][CoreNext]_vars

----------------------------------------------------------------------------
(* The Home page and the YamlVisualizer it mounts *)

\* the message parseInputYaml sets on a failed parse (Japanese in the source)
ParseErrorMessage == "YAML parse failed"

TextA == "src: {structure.yaml: {content: root, dependency: [], agent: A, api: []}}"

TextB == "src: {structure.yaml: {content: root, dependency: [], agent: A, api: []}, a.ts: {content: x, dependency: [src/structure.yaml], agent: B, api: []}}"

TextC == "src: {structure.yaml: {content: root, dependency: [], agent: A, api: []}, lib: {b.ts: {content: y, dependency: [src/structure.yaml, src/missing.ts], agent: B, api: []}}}"

TextBad == "src: ["

TextScalar == "hello"

Texts == {"", "  ", TextBad, TextScalar, TextA, TextB, TextC}

TreeTexts == {TextA, TextB, TextC}

\* js-yaml load on the texts above: the document, or a thrown YAMLException
parseYaml(text) ==
    CASE text = TextA ->
             [error |-> "none",
              data |-> MakeTree({"src/structure.yaml"}, <<>>, <<>>, Undefined)]
      [] text = TextB -> [error |-> "none", data |-> ExampleTree]
      [] text = TextC ->
             [error |-> "none",
              data |-> MakeTree({"src/structure.yaml", "src/lib/b.ts"},
                                <<"src/lib/b.ts", "src/lib/b.ts">>,
                                <<"src/structure.yaml", MissingId>>, Undefined)]
      [] text = TextScalar -> [error |-> "none", data |-> Str(TextScalar)]
      [] text = TextBad -> [error |-> "YAMLException", data |-> Undefined]
      [] OTHER -> [error |-> "none", data |-> Undefined]

IsSpace(c) == c \in {" ", "\t", "\n"}

\* text.trim()
Trim(text) ==
    LET kept == {i \in 1..Len(text) : ~ IsSpace(SubSeq(text, i, i))}
    IN IF kept = {} THEN "" ELSE SubSeq(text, SetMin(kept), SetMax(kept))

\* mutation: the catch branch leaves yamlData as it was
parseInputYaml_errorKeepsData(text) ==
    IF Trim(text) = ""
    THEN [yamlData |-> Null, parseError |-> Null]
    ELSE LET parsed == parseYaml(text)
         IN IF parsed.error = "none"
            THEN [yamlData |-> parsed.data, parseError |-> Null]
            ELSE [yamlData |-> yamlData, parseError |-> Str(ParseErrorMessage)]

\* the values of yamlData and parseError after parseInputYaml(text)
parseInputYaml(text) ==
    IF Trim(text) = ""
    THEN [yamlData |-> Null, parseError |-> Null]
    ELSE LET parsed == parseYaml(text)
         IN IF parsed.error = "none"
            THEN [yamlData |-> parsed.data, parseError |-> Null]
            ELSE [yamlData |-> Null, parseError |-> Str(ParseErrorMessage)]

\* JavaScript truthiness of the values yamlData and parseError take
Truthy(v) == ~ (v.t \in {"null", "undefined"} \/ (v.t = "string" /\ v.s = ""))

\* initialEdges.map((edge) => ({...edge, type: "smoothstep", ..., animated: true}))
styledEdges(es) ==
    [i \in 1..Len(es) |->
        [id |-> es[i].id, source |-> es[i].source, target |-> es[i].target,
         type |-> "smoothstep", animated |-> TRUE]]

\* render of Home's right pane: YamlVisualizerContent is mounted while yamlData
\* is truthy; useNodesState / useEdgesState take their argument on mount only
YamlVisualizerContent(data, vis, rnd) ==
    IF ~ Truthy(data)
    THEN [crashed |-> FALSE, visualizer |-> Unmounted]
    ELSE LET generated == generateNodesAndEdges(data, rnd)
             shown == {a \in generated.agents : Truthy(a)}
         IN IF generated.status # "returned"
            THEN [crashed |-> TRUE, visualizer |-> Unmounted]
            ELSE IF vis.mounted
            THEN [crashed |-> FALSE,
                  visualizer |-> [vis EXCEPT !.agents = shown]]
            ELSE [crashed |-> FALSE,
                  visualizer |-> [mounted |-> TRUE,
                                  nodes |-> generated.nodes,
                                  edges |-> styledEdges(generated.edges),
                                  agents |-> shown]]

\* useState(null), useState(""), useState(null); nothing scheduled or mounted
HomeInit ==
    /\ LayoutIdle
    /\ GenIdle
    /\ yamlText = ""
    /\ yamlData = Null
    /\ parseError = Null
    /\ pendingParse = NoTimer
    /\ visualizer = Unmounted
    /\ crashed = FALSE
    /\ sinceReset = FALSE

\* the user edits the text area; the re-render leaves the visualizer as it is
handleYamlChange ==
    /\ ~ crashed
    /\ \E value \in Texts \ {yamlText} :
           /\ yamlText' = value
           /\ pendingParse' = [armed |-> TRUE, text |-> value]
    /\ sinceReset' = FALSE
    /\ UNCHANGED <<yamlData, parseError, visualizer, crashed, layoutVars, genVars>>

\* 500 ms passed since the last call of debouncedParse: parseInputYaml runs
debouncedParse ==
    /\ ~ crashed
    /\ pendingParse.armed
    /\ LET parsed == parseInputYaml(pendingParse.text)
       IN /\ yamlData' = parsed.yamlData
          /\ parseError' = parsed.parseError
          /\ \E rnd \in [1..MaxLeaves -> RandomPositions] :
                 LET rendered == YamlVisualizerContent(parsed.yamlData, visualizer, rnd)
                 IN /\ visualizer' = rendered.visualizer
                    /\ crashed' = rendered.crashed
    /\ pendingParse' = NoTimer
    /\ UNCHANGED <<yamlText, sinceReset, layoutVars, genVars>>

handleReset ==
    /\ ~ crashed
    /\ yamlData' = Null
    /\ yamlText' = ""
    /\ parseError' = Null
    /\ visualizer' = Unmounted
    /\ sinceReset' = TRUE
    /\ UNCHANGED <<pendingParse, crashed, layoutVars, genVars>>

handleAutoLayout ==
    /\ ~ crashed
    /\ visualizer.mounted
    /\ visualizer' =
           [visualizer EXCEPT !.nodes =
               [i \in 1..Len(@) |->
                   [@[i] EXCEPT !.position =
                       [x |-> ((i - 1) % 3) * defaultHorizontalSpacing,
                        y |-> ((i - 1) \div 3) * defaultVerticalSpacing]]]]
    /\ UNCHANGED <<yamlText, yamlData, parseError, pendingParse, crashed,
                   sinceReset, layoutVars, genVars>>

HomeNext ==
    \/ handleYamlChange
    \/ debouncedParse
    \/ handleReset
    \/ handleAutoLayout

HomeSpec == HomeInit /\ [][HomeNext]_vars

----------------------------------------------------------------------------
(* Graph notions the layout claims are stated with *)

Successors(es, S) == {es[i].target : i \in {j \in 1..Len(es) : es[j].source \in S}}

RECURSIVE ReachableFrom(_, _)
\* every id reachable from S along edges, S included
ReachableFrom(es, S) ==
    LET next == S \cup Successors(es, S)
    IN IF next = S THEN S ELSE ReachableFrom(es, next)

OnCycle(es, n) == n \in ReachableFrom(es, Successors(es, {n}))

EdgeIds(es) == {es[i].source : i \in 1..Len(es)} \cup {es[i].target : i \in 1..Len(es)}

Acyclic(es) == \A n \in EdgeIds(es) : ~ OnCycle(es, n)

RootIds(ns, es) ==
    {ns[i].id : i \in {j \in 1..Len(ns) :
        ~ \E k \in 1..Len(es) : es[k].target = ns[j].id}}

CycleReachableFromRoot(ns, es) ==
    \E n \in ReachableFrom(es, RootIds(ns, es)) : OnCycle(es, n)

RECURSIVE LongestDepth(_, _, _)
\* length of the longest path from a root to n, -1 when no root reaches n
\* (defined on acyclic edge lists only)
LongestDepth(ns, es, n) ==
    IF n \in RootIds(ns, es)
    THEN 0
    ELSE LET preds == {es[i].source : i \in {j \in 1..Len(es) : es[j].target = n}}
             depths == {LongestDepth(ns, es, p) + 1 : p \in preds} \ {0}
         IN IF depths = {} THEN -1 ELSE SetMax(depths)

LayoutCalled == layoutResult.status # "pending"

LayoutReturned == layoutResult.status = "returned"

LaidOut == DOMAIN layoutResult.positions

Y(id) == layoutResult.positions[id].y

X(id) == layoutResult.positions[id].x

----------------------------------------------------------------------------
\* C2: calculateNodePositions returns for every finite node list and edge
\* list, also when a cycle or a self-dependency is reachable from a root:
\* a call never ends in a stack overflow.
C2_AlwaysReturns == LayoutCalled => LayoutReturned

\* The call overflows the stack exactly when a cycle is reachable from a root.
RangeErrorIffCycleFromRoot ==
    LayoutCalled =>
        (layoutResult.status = "RangeError"
            <=> CycleReachableFromRoot(layoutNodes, layoutEdges))

----------------------------------------------------------------------------
\* C3: on every level of the returned layout the nodes finally placed there
\* occupy exactly the k evenly spaced slots startX + i * horizontalSpacing
\* (+ stagger on odd levels), i = 0..k-1, centred with startX =
\* -(k-1) * horizontalSpacing / 2, k being the number of nodes on the level.
FinalLevels == {Y(id) \div defaultVerticalSpacing : id \in LaidOut}

OnLevel(L) == {id \in LaidOut : Y(id) = L * defaultVerticalSpacing}

CentredSlots(L, k) ==
    {(0 - (((k - 1) * defaultHorizontalSpacing) \div 2))
        + i * defaultHorizontalSpacing
        + (IF L % 2 = 0 THEN 0 ELSE STAGGER_OFFSET) : i \in 0..(k - 1)}

C3_LevelsCentred ==
    LayoutReturned =>
        \A L \in FinalLevels :
            {X(id) : id \in OnLevel(L)} = CentredSlots(L, Cardinality(OnLevel(L)))

----------------------------------------------------------------------------
\* C4: for an acyclic edge list, every laid-out node sits at
\* y = verticalSpacing * (longest path from a root to it), whatever the order
\* of the edges, and so every edge whose source is laid out goes strictly
\* downwards: y(target) > y(source).
C4_MaxDepthLevel ==
    (LayoutCalled /\ Acyclic(layoutEdges)) =>
        /\ LayoutReturned
        /\ \A id \in LaidOut :
               Y(id) = defaultVerticalSpacing
                           * LongestDepth(layoutNodes, layoutEdges, id)
        /\ \A i \in 1..Len(layoutEdges) :
               layoutEdges[i].source \in LaidOut =>
                   /\ layoutEdges[i].target \in LaidOut
                   /\ Y(layoutEdges[i].target) > Y(layoutEdges[i].source)

\* a node reached by two paths of different depth, laid out at the deeper one
C4_Witness ==
    /\ LayoutReturned
    /\ Acyclic(layoutEdges)
    /\ \E i, j \in 1..Len(layoutEdges) :
           /\ layoutEdges[i].target = layoutEdges[j].target
           /\ layoutEdges[i].source \in LaidOut
           /\ layoutEdges[j].source \in LaidOut
           /\ Y(layoutEdges[i].source) < Y(layoutEdges[j].source)
           /\ Y(layoutEdges[i].target) = 2 * defaultVerticalSpacing

----------------------------------------------------------------------------
\* C5: every node of the node list that is the target of no edge is laid out
\* at level 0, i.e. its position has y = 0.
C5_RootsAtLevelZero ==
    LayoutReturned =>
        \A id \in RootIds(layoutNodes, layoutEdges) :
            id \in LaidOut /\ Y(id) = 0

\* a root with a dependency edge, laid out above the node it points at
C5_Witness ==
    /\ LayoutReturned
    /\ \E i \in 1..Len(layoutEdges) :
           /\ layoutEdges[i].source \in RootIds(layoutNodes, layoutEdges)
           /\ Y(layoutEdges[i].source) = 0
           /\ Y(layoutEdges[i].target) > 0

----------------------------------------------------------------------------
(* What a tree declares, read off the tree itself *)

FileKeys(id) ==
    CASE id = "src/structure.yaml" -> <<"structure.yaml">>
      [] id = "src/a.ts" -> <<"a.ts">>
      [] id = "src/lib/b.ts" -> <<"lib", "b.ts">>

RECURSIVE Lookup(_, _)
Lookup(v, keys) == IF keys = <<>> THEN v ELSE Lookup(Get(v, Head(keys)), Tail(keys))

FileValue(id) == Lookup(Get(yamlTree, "src"), FileKeys(id))

PresentFiles == {id \in FileIdSet : isYamlFile(FileValue(id))}

DeclaredDeps(id) ==
    LET deps == Get(FileValue(id), "dependency").entries
    IN {deps[i].value.s : i \in 1..Len(deps)}

RECURSIVE DeclaredEdges(_)
\* one pair per declared dependency, over the files FileIds[i..]
DeclaredEdges(i) ==
    IF i > Len(FileIds)
    THEN <<>>
    ELSE LET deps == IF FileIds[i] \in PresentFiles
                     THEN Get(FileValue(FileIds[i]), "dependency").entries
                     ELSE <<>>
         IN [k \in 1..Len(deps) |->
                [source |-> FileIds[i], target |-> deps[k].value.s]]
            \o DeclaredEdges(i + 1)

GenCalled == genResult.status # "pending"

GenReturned == genResult.status = "returned"

NodeIds == {genResult.nodes[i].id : i \in 1..Len(genResult.nodes)}

NodePosition(id) ==
    genResult.nodes[CHOOSE i \in 1..Len(genResult.nodes) :
                        genResult.nodes[i].id = id].position

----------------------------------------------------------------------------
\* C1: for every acyclic tree, generateNodesAndEdges places each file
\* strictly below every file of the tree it declares as a dependency,
\* y(dependent) > y(dependency); for the example tree src/structure.yaml is
\* at y = 0 and src/a.ts one vertical spacing below it.
C1_DependentBelowDependency ==
    (GenReturned /\ Acyclic(DeclaredEdges(1))) =>
        /\ \A f \in PresentFiles :
               \A d \in DeclaredDeps(f) \cap PresentFiles :
                   NodePosition(f).y > NodePosition(d).y
        /\ yamlTree = ExampleTree =>
               /\ NodePosition("src/structure.yaml").y = 0
               /\ NodePosition("src/a.ts").y = defaultVerticalSpacing

----------------------------------------------------------------------------
\* C6: an entry that lacks one of the four leaf fields and whose values are
\* no mappings (a string, an array of strings, null) is silently skipped:
\* generateNodesAndEdges returns normally and emits no node for the entry.
C6_NonLeafSilentlySkipped ==
    (GenCalled /\ HasKey(Get(yamlTree, "src"), "notes")) =>
        /\ GenReturned
        /\ \A id \in NodeIds : SubSeq(id, 1, 9) # "src/notes"

----------------------------------------------------------------------------
\* C7: when a leaf declares a dependency on a path that is not among the
\* flattened nodes, an edge to that path is emitted and the position map
\* calculateNodePositions returns has no entry for the path.
C7_AbsentPathNotLaidOut ==
    GenReturned =>
        \A f \in PresentFiles :
            \A d \in DeclaredDeps(f) \ NodeIds :
                /\ \E i \in 1..Len(genResult.edges) :
                       /\ genResult.edges[i].source = f
                       /\ genResult.edges[i].target = d
                /\ d \notin DOMAIN genResult.positions

----------------------------------------------------------------------------
\* C8: two calls of generateNodesAndEdges on the same tree return the same
\* node ids, edges, agent set and the same position for every node.
C8_Deterministic ==
    (genPrevious.status # "pending") =>
        /\ genResult.status = genPrevious.status
        /\ genResult.nodes = genPrevious.nodes
        /\ genResult.edges = genPrevious.edges
        /\ genResult.agents = genPrevious.agents

----------------------------------------------------------------------------
(* What the visualizer shows and what the text describes *)

ShownNodeIds == {visualizer.nodes[i].id : i \in 1..Len(visualizer.nodes)}

ShownEdges ==
    {<<visualizer.edges[i].source, visualizer.edges[i].target>> :
        i \in 1..Len(visualizer.edges)}

\* the graph of a tree none of whose nodes keeps its random position
GraphOf(tree) ==
    generateNodesAndEdges(tree, [k \in 1..MaxLeaves |-> [x |-> 0, y |-> 0]])

GraphNodeIds(tree) == {GraphOf(tree).nodes[i].id : i \in 1..Len(GraphOf(tree).nodes)}

GraphEdges(tree) ==
    {<<GraphOf(tree).edges[i].source, GraphOf(tree).edges[i].target>> :
        i \in 1..Len(GraphOf(tree).edges)}

\* the debounced parse of the current text has run and nothing is scheduled
ParsedCurrentText ==
    /\ ~ pendingParse.armed
    /\ yamlText \in TreeTexts
    /\ yamlData = parseYaml(yamlText).data

----------------------------------------------------------------------------
\* C9: once the debounce has elapsed on a text that is a valid YAML tree,
\* the nodes and edges shown by YamlVisualizerContent are those generated
\* from that text, also when a graph of an earlier text was shown before.
C9_GraphFollowsText ==
    ParsedCurrentText =>
        /\ visualizer.mounted
        /\ ShownNodeIds = GraphNodeIds(yamlData)
        /\ ShownEdges = GraphEdges(yamlData)

----------------------------------------------------------------------------
\* C10: after handleReset, yamlData and parseError stay null until the user
\* next changes the text: a parse scheduled before the reset never applies
\* its result after it.
C10_ResetStaysClear ==
    sinceReset => (yamlData = Null /\ parseError = Null)

----------------------------------------------------------------------------
\* C11: no two nodes returned by generateNodesAndEdges have the same id,
\* whatever strings the keys of the mapping are: distinct leaves yield
\* distinct ids.
C11_NodeIdsUnique ==
    GenReturned =>
        \A i, j \in 1..Len(genResult.nodes) :
            i # j => genResult.nodes[i].id # genResult.nodes[j].id

----------------------------------------------------------------------------
\* C12: when no cycle is reachable from a root, calculateNodePositions
\* returns, and a node of the node list has a position entry exactly when
\* some root reaches it along the edges; with no root at all the map is
\* empty; generateNodesAndEdges gives a node the position of its entry and
\* leaves a node without entry at its initial random position.
ListedIds(ns) == {ns[i].id : i \in 1..Len(ns)}

EntriesAreTheReachable(ns, es, positions) ==
    /\ \A id \in ListedIds(ns) :
           id \in DOMAIN positions <=> id \in ReachableFrom(es, RootIds(ns, es))
    /\ RootIds(ns, es) = {} => DOMAIN positions = {}

C12_EntryIffReachable ==
    /\ (LayoutCalled /\ ~ CycleReachableFromRoot(layoutNodes, layoutEdges)) =>
           /\ LayoutReturned
           /\ EntriesAreTheReachable(layoutNodes, layoutEdges,
                                     layoutResult.positions)
    /\ GenReturned =>
           /\ EntriesAreTheReachable(genResult.nodes, genResult.edges,
                                     genResult.positions)
           /\ \A i \in 1..Len(genResult.nodes) :
                  IF genResult.nodes[i].id \in DOMAIN genResult.positions
                  THEN genResult.nodes[i].position
                           = genResult.positions[genResult.nodes[i].id]
                  ELSE genResult.nodes[i].position \in RandomPositions

\* a tree with a file some root reaches and a file on a cycle no root
\* reaches, the first laid out below its root, the second left where it was
C12_Witness ==
    /\ GenReturned
    /\ \E i, j \in 1..Len(genResult.nodes) :
           /\ genResult.nodes[i].id \in DOMAIN genResult.positions
           /\ genResult.nodes[i].id \notin RootIds(genResult.nodes, genResult.edges)
           /\ genResult.nodes[i].position.y > 0
           /\ genResult.nodes[j].id \notin DOMAIN genResult.positions
           /\ OnCycle(genResult.edges, genResult.nodes[j].id)
           /\ genResult.nodes[j].position = [x |-> 250, y |-> 125]

----------------------------------------------------------------------------
\* C13: on acyclic input, any two distinct ids with an entry in the returned
\* position map have different (x, y) positions, also when a node is reached
\* by several paths and so recorded on several levels or several times on
\* one level.
C13_PositionsDistinct ==
    (LayoutReturned /\ Acyclic(layoutEdges)) =>
        \A a, b \in LaidOut :
            a # b => layoutResult.positions[a] # layoutResult.positions[b]

\* a node recorded twice on one level (the same edge twice) that ends on the
\* same level as another node
C13_Witness ==
    /\ LayoutReturned
    /\ Acyclic(layoutEdges)
    /\ \E i, j \in 1..Len(layoutEdges) :
           /\ i # j
           /\ layoutEdges[i] = layoutEdges[j]
           /\ layoutEdges[i].source \in LaidOut
           /\ \E other \in LaidOut \ {layoutEdges[i].target} :
                  Y(other) = Y(layoutEdges[i].target)

----------------------------------------------------------------------------
\* C14: in every reachable state of the Home page parseError and yamlData are
\* never both non-null: while an error message is shown yamlData is null and
\* no graph is mounted, so a failed parse has cleared the graph shown before.
C14_ErrorExcludesGraph ==
    parseError # Null => (yamlData = Null /\ visualizer = Unmounted)

\* the debounced parse of a malformed text has run and set the message
C14_Witness ==
    /\ parseError = Str(ParseErrorMessage)
    /\ yamlText = TextBad
    /\ ~ pendingParse.armed
    /\ ~ sinceReset

====
